---------------------------- MODULE Spec2Model ----------------------------
(***************************************************************************)
(* A model of rssettings (src/src/lib.rs): the Settings store, its line    *)
(* classifier, load / save / get / set, and the files it reads and writes. *)
(*                                                                         *)
(* Text is a sequence of one-character strings.  A file on disk is a       *)
(* record [exists, lines, nl]: `lines' are the pieces between '\n' bytes   *)
(* (a piece may end with a carriage return), `nl' says whether the last    *)
(* piece is followed by '\n'.  The character BAD stands for a byte         *)
(* sequence that is not UTF-8: reading a line that holds it is an I/O      *)
(* error.                                                                  *)
(***************************************************************************)
EXTENDS Integers, Sequences, FiniteSets, TLC

VARIABLES
    fs,        \* the disk: path -> file
    settings,  \* the Settings instance: [path, sections]
    last,      \* the last step: the call, its arguments and its result, and
               \* for a load the result of the load just before it, if any
    loaded,    \* the path given to the load that succeeded, and the file it read
    sets,      \* the successful set calls since load succeeded, in order
    nsaves,    \* save calls since load succeeded
    ext,       \* writes to the loaded file by other programs since load
    threads    \* the threads that share the instance under a Mutex: who holds
               \* the lock, where each thread is, and the reader's `wait'

vars == <<fs, settings, last, loaded, sets, nsaves, ext, threads>>

---------------------------------------------------------------------------
(* lib.rs constants *)

COMMENT_TAG == "#"
START_SECTION_TAG == "["
END_SECTION_TAG == "]"
ASSIGN_TAG == "="
GLOBAL_SECTION == <<"G", "L", "O", "B", "A", "L">>

OPENING_FILE_ERROR_MESSAGE_IDX == 0
MISSING_START_SECTION_TAG_MESSAGE_IDX == 1
MISSING_END_SECTION_TAG_MESSAGE_IDX == 2
MISSING_ASSIGN_TAG_MESSAGE_IDX == 3
MISSING_KEY_MESSAGE_IDX == 4
DUPLICATED_KEY_MESSAGE_IDX == 5
SECTION_NOT_FOUND_MESSAGE_IDX == 6
KEY_NOT_FOUND_MESSAGE_IDX == 7
PARSING_ERROR_MESSAGE_IDX == 8
WRITING_FILE_ERROR_MESSAGE_IDX == 9
READING_FILE_ERROR_MESSAGE_IDX == 10
ALREADY_INITIALIZED_MESSAGE_IDX == 11

\* The placeholder "{}" is the two characters "{" and "}"; the text between
\* placeholders holds neither, and is kept as one piece.
SETTINGS_MESSAGES ==
    <<  <<"Error opening settings file: '", "{", "}", "': '", "{", "}", "'">>,
        <<"Missing start section tag '", "{", "}", "' at line '", "{", "}",
          "' of settings file: '", "{", "}", "'">>,
        <<"Missing end section tag '", "{", "}", "' at line '", "{", "}",
          "' of settings file: '", "{", "}", "'">>,
        <<"Missing assign tag '", "{", "}", "' at line '", "{", "}",
          "' of settings file: '", "{", "}", "'">>,
        <<"Missing key at line '", "{", "}", "' of settings file: '", "{", "}", "'">>,
        <<"Duplicated key '", "{", "}", "' at line '", "{", "}",
          "' previously defined at line '", "{", "}", "' of settings file: '",
          "{", "}", "'">>,
        <<"Section '", "{", "}", "' not found">>,
        <<"Section '", "{", "}", "' key '", "{", "}", "' not found">>,
        <<"Section '", "{", "}", "' key '", "{", "}", "', Parsing error: '",
          "{", "}", "'">>,
        <<"Error writing file: '", "{", "}", "': '", "{", "}", "'">>,
        <<"Error reading file: '", "{", "}", "' at line ", "{", "}", ": '",
          "{", "}", "'">>,
        <<"Settings already initialized using file: '", "{", "}", "'">>  >>

---------------------------------------------------------------------------
(* Text: what the str and String methods used by lib.rs do *)

\* char::is_whitespace, on the characters of the model
IsWhite(c) == c \in {" ", "\t", "\r"}

BAD == "\\xFF"

\* str::find(c): the 1-based index of the first c, 0 for None
RECURSIVE FindFrom(_, _, _)
FindFrom(s, c, i) ==
    IF i > Len(s) THEN 0
    ELSE IF s[i] = c THEN i
    ELSE FindFrom(s, c, i + 1)

Find(s, c) == FindFrom(s, c, 1)

\* str::find("{}")
RECURSIVE FindPlaceholderFrom(_, _)
FindPlaceholderFrom(s, i) ==
    IF i + 1 > Len(s) THEN 0
    ELSE IF s[i] = "{" /\ s[i + 1] = "}" THEN i
    ELSE FindPlaceholderFrom(s, i + 1)

FindPlaceholder(s) == FindPlaceholderFrom(s, 1)

RECURSIVE TrimStart(_)
TrimStart(s) ==
    IF s # <<>> /\ IsWhite(Head(s)) THEN TrimStart(Tail(s)) ELSE s

RECURSIVE TrimEnd(_)
TrimEnd(s) ==
    IF s # <<>> /\ IsWhite(s[Len(s)]) THEN TrimEnd(SubSeq(s, 1, Len(s) - 1)) ELSE s

\* str::trim
Trim(s) == TrimEnd(TrimStart(s))

\* str::replace(c, "")
RECURSIVE Remove(_, _)
Remove(s, c) ==
    IF s = <<>> THEN <<>>
    ELSE IF Head(s) = c THEN Remove(Tail(s), c)
    ELSE <<Head(s)>> \o Remove(Tail(s), c)

\* format!("{}", n) for an unsigned integer
RECURSIVE Dec(_)
Dec(n) ==
    LET d == <<"0", "1", "2", "3", "4", "5", "6", "7", "8", "9">>[(n % 10) + 1]
    IN  IF n < 10 THEN <<d>> ELSE Dec(n \div 10) \o <<d>>


---------------------------------------------------------------------------
(* Diagnostics *)

\* String::replacen("{}", param, 1), the placeholder being at p
ReplaceAt(message, p, param) ==
    SubSeq(message, 1, p - 1) \o param \o SubSeq(message, p + 2, Len(message))

\* Settings::format_message: the i-th pass replaces the first "{}" of the
\* message built so far by params[i], and the loop ends when no "{}" is left
\* or the parameters are used up
RECURSIVE format_message_loop(_, _, _, _)
format_message_loop(message, params, i, p) ==
    IF p = 0 THEN message
    ELSE IF i + 1 >= Len(params) THEN ReplaceAt(message, p, params[i + 1])
    ELSE format_message_loop(ReplaceAt(message, p, params[i + 1]), params, i + 1,
             FindPlaceholder(ReplaceAt(message, p, params[i + 1])))

format_message(message_idx, params) ==
    format_message_loop(SETTINGS_MESSAGES[message_idx + 1], params, 0,
                        FindPlaceholder(SETTINGS_MESSAGES[message_idx + 1]))

\* params[i] of the first pass is out of bounds when params is empty: the
\* call panics (every call of lib.rs passes a parameter)
format_message_panics(message_idx, params) ==
    /\ FindPlaceholder(SETTINGS_MESSAGES[message_idx + 1]) # 0
    /\ Len(params) = 0

\* StdResult::Ok(()) and StdResult::Err(message).  idx and params record which
\* template and parameters the message was rendered from.
Ok == [ok |-> TRUE, idx |-> -1, params |-> <<>>, error |-> <<>>]

Err(message_idx, params) ==
    [ok |-> FALSE, idx |-> message_idx, params |-> params,
     error |-> format_message(message_idx, params)]

\* format!("{:#}", ioerror)
NOT_FOUND == <<"No such file or directory (os error 2)">>
INVALID_DATA == <<"stream did not contain valid UTF-8">>

---------------------------------------------------------------------------
(* Files *)

NoFile == [exists |-> FALSE, lines |-> <<>>, nl |-> FALSE]

\* BufReader::lines: one item per piece; a piece followed by '\n' loses one
\* carriage return before it; a piece that is not UTF-8 is an Err item
BufLine(f, i) ==
    IF (i < Len(f.lines) \/ f.nl) /\ f.lines[i] # <<>>
       /\ f.lines[i][Len(f.lines[i])] = "\r"
    THEN SubSeq(f.lines[i], 1, Len(f.lines[i]) - 1)
    ELSE f.lines[i]

BufLineIsErr(f, i) == Find(f.lines[i], BAD) # 0

BufLines(f) == [i \in 1..Len(f.lines) |-> BufLine(f, i)]

\* the pieces of a text between its '\n' characters
RECURSIVE SplitNewline(_)
SplitNewline(s) ==
    IF Find(s, "\n") = 0 THEN <<s>>
    ELSE <<SubSeq(s, 1, Find(s, "\n") - 1)>>
         \o SplitNewline(SubSeq(s, Find(s, "\n") + 1, Len(s)))

RECURSIVE Pieces(_)
Pieces(line_texts) ==
    IF line_texts = <<>> THEN <<>>
    ELSE SplitNewline(Head(line_texts)) \o Pieces(Tail(line_texts))

\* File::create, then write_all(format!("{}\n", line_text)) for each line
Written(line_texts) ==
    [exists |-> TRUE, lines |-> Pieces(line_texts), nl |-> line_texts # <<>>]

---------------------------------------------------------------------------
(* LineType and Settings::line_type *)

EmptyLine == [type |-> "EmptyLine"]
SectionLine(name) == [type |-> "SectionLine", name |-> name]
KeyAndValue(key, value) == [type |-> "KeyAndValue", key |-> key, value |-> value]
BadFormattedLine(error) == [type |-> "BadFormattedLine", error |-> error]

\* String::truncate(index) at the first '#'
TruncateAt(line_text, index) ==
    IF index # 0 THEN SubSeq(line_text, 1, index - 1) ELSE line_text

\* the line up to its first '#', trimmed (lib.rs 649-655)
StripComment(line_text) == Trim(TruncateAt(line_text, Find(line_text, COMMENT_TAG)))

starts_with(trimmed_line) ==
    trimmed_line # <<>> /\ Head(trimmed_line) = START_SECTION_TAG

ends_with(trimmed_line) ==
    trimmed_line # <<>> /\ trimmed_line[Len(trimmed_line)] = END_SECTION_TAG

\* Faulty variant of section_line: the empty name is kept
section_line_empty(section_name) == SectionLine(section_name)

\* the header branch (lib.rs 663-667): the name between the brackets
section_line(section_name) ==
    SectionLine(IF Len(section_name) = 0 THEN GLOBAL_SECTION ELSE section_name)

\* the key/value branch (lib.rs 685-696), the line split at assign_pos
key_value_line(key, value, line_cnt, settings_file) ==
    IF Len(key) = 0
    THEN BadFormattedLine(Err(MISSING_KEY_MESSAGE_IDX,
                              <<Dec(line_cnt), settings_file>>))
    ELSE KeyAndValue(key, value)

\* Faulty variant of split_at_assign: only the first '=' is removed
split_at_assign_once(trimmed_line, assign_pos, line_cnt, settings_file) ==
    key_value_line(
        Trim(SubSeq(trimmed_line, 1, assign_pos - 1)),
        Trim(SubSeq(trimmed_line, assign_pos + 1, Len(trimmed_line))),
        line_cnt, settings_file)

\* lib.rs 684-696: the key and the value of a line with an '=' at assign_pos
split_at_assign(trimmed_line, assign_pos, line_cnt, settings_file) ==
    key_value_line(
        Trim(SubSeq(trimmed_line, 1, assign_pos - 1)),
        Trim(Remove(SubSeq(trimmed_line, assign_pos, Len(trimmed_line)), ASSIGN_TAG)),
        line_cnt, settings_file)

\* Faulty variant of classify: the search for '=' comes before the test of
\* the section tags
classify_assign_first(trimmed_line, line_cnt, settings_file) ==
    IF Len(trimmed_line) = 0 THEN EmptyLine
    ELSE IF Find(trimmed_line, ASSIGN_TAG) # 0
    THEN split_at_assign(trimmed_line, Find(trimmed_line, ASSIGN_TAG),
                         line_cnt, settings_file)
    ELSE IF starts_with(trimmed_line) /\ ends_with(trimmed_line)
    THEN section_line(SubSeq(trimmed_line, 2, Len(trimmed_line) - 1))
    ELSE IF starts_with(trimmed_line) /\ ~ends_with(trimmed_line)
    THEN BadFormattedLine(Err(MISSING_END_SECTION_TAG_MESSAGE_IDX,
             <<<<END_SECTION_TAG>>, Dec(line_cnt), settings_file>>))
    ELSE IF ~starts_with(trimmed_line) /\ ends_with(trimmed_line)
    THEN BadFormattedLine(Err(MISSING_START_SECTION_TAG_MESSAGE_IDX,
             <<<<START_SECTION_TAG>>, Dec(line_cnt), settings_file>>))
    ELSE BadFormattedLine(Err(MISSING_ASSIGN_TAG_MESSAGE_IDX,
             <<<<ASSIGN_TAG>>, Dec(line_cnt), settings_file>>))

\* Settings::line_type from its line 655 on
classify(trimmed_line, line_cnt, settings_file) ==
    IF Len(trimmed_line) = 0 THEN EmptyLine
    ELSE IF starts_with(trimmed_line) /\ ends_with(trimmed_line)
    THEN section_line(SubSeq(trimmed_line, 2, Len(trimmed_line) - 1))
    ELSE IF starts_with(trimmed_line) /\ ~ends_with(trimmed_line)
    THEN BadFormattedLine(Err(MISSING_END_SECTION_TAG_MESSAGE_IDX,
             <<<<END_SECTION_TAG>>, Dec(line_cnt), settings_file>>))
    ELSE IF ~starts_with(trimmed_line) /\ ends_with(trimmed_line)
    THEN BadFormattedLine(Err(MISSING_START_SECTION_TAG_MESSAGE_IDX,
             <<<<START_SECTION_TAG>>, Dec(line_cnt), settings_file>>))
    ELSE IF Find(trimmed_line, ASSIGN_TAG) # 0
    THEN split_at_assign(trimmed_line, Find(trimmed_line, ASSIGN_TAG),
                         line_cnt, settings_file)
    ELSE BadFormattedLine(Err(MISSING_ASSIGN_TAG_MESSAGE_IDX,
             <<<<ASSIGN_TAG>>, Dec(line_cnt), settings_file>>))

\* Faulty variant of line_type: the lines are counted from 0
line_type_from_zero(line_text, line_cnt, settings_file) ==
    classify(StripComment(line_text), line_cnt - 1, settings_file)

line_type(line_text, line_cnt, settings_file) ==
    classify(StripComment(line_text), line_cnt, settings_file)

---------------------------------------------------------------------------
(* KeyValuePair and Section *)

KeyValuePair(key, value, line_cnt) ==
    [key |-> key, value |-> value, line_cnt |-> line_cnt]

NewSection(name) == [name |-> name, values |-> <<>>]

\* the index of the first pair of `values' with this key, 0 for none
RECURSIVE KeyIndexFrom(_, _, _)
KeyIndexFrom(values, key, i) ==
    IF i > Len(values) THEN 0
    ELSE IF values[i].key = key THEN i
    ELSE KeyIndexFrom(values, key, i + 1)

KeyIndex(values, key) == KeyIndexFrom(values, key, 1)

\* Faulty variant of Section_add_at: the pair is added whether the key is
\* there or not
Section_add_at_push(section, i, key, value, line_cnt) ==
    [ok |-> TRUE, previous_line |-> 0,
     section |-> [section EXCEPT
         !.values = Append(@, KeyValuePair(key, value, line_cnt))]]

\* Section::add, i being the pair found with this key: [ok, previous_line, section]
Section_add_at(section, i, key, value, line_cnt) ==
    IF i # 0
    THEN [ok |-> FALSE, previous_line |-> section.values[i].line_cnt,
          section |-> section]
    ELSE [ok |-> TRUE, previous_line |-> 0,
          section |-> [section EXCEPT
              !.values = Append(@, KeyValuePair(key, value, line_cnt))]]

Section_add(section, key, value, line_cnt) ==
    Section_add_at(section, KeyIndex(section.values, key), key, value, line_cnt)

\* Section::get: [found, value]
Section_get_at(section, i) ==
    IF i # 0 THEN [found |-> TRUE, value |-> section.values[i].value]
    ELSE [found |-> FALSE, value |-> <<>>]

Section_get(section, key) == Section_get_at(section, KeyIndex(section.values, key))

\* Faulty variant of Section_set_at: the first pair of the section is written
Section_set_at_first(section, i, value) ==
    IF i # 0
    THEN [found |-> TRUE, section |-> [section EXCEPT !.values[1].value = value]]
    ELSE [found |-> FALSE, section |-> section]

\* Section::set: [found, section]
Section_set_at(section, i, value) ==
    IF i # 0
    THEN [found |-> TRUE, section |-> [section EXCEPT !.values[i].value = value]]
    ELSE [found |-> FALSE, section |-> section]

Section_set(section, key, value) ==
    Section_set_at(section, KeyIndex(section.values, key), value)

---------------------------------------------------------------------------
(* Settings *)

\* Settings::new
NewSettings == [path |-> <<>>, sections |-> <<>>]

is_initialize(self) == 0 # Len(self.path)

\* Settings::get_section and get_section_mut: the index of the first section
\* with this name, 0 for None
RECURSIVE SectionIndexFrom(_, _, _)
SectionIndexFrom(sections, section_name, i) ==
    IF i > Len(sections) THEN 0
    ELSE IF sections[i].name = section_name THEN i
    ELSE SectionIndexFrom(sections, section_name, i + 1)

get_section(sections, section_name) == SectionIndexFrom(sections, section_name, 1)

\* Faulty variant of add_to_found: the two line numbers change places
add_to_found_swapped(sections, s, added, key, line_cnt, settings_file) ==
    IF ~added.ok
    THEN [result |-> Err(DUPLICATED_KEY_MESSAGE_IDX,
              <<key, Dec(added.previous_line), Dec(line_cnt), settings_file>>),
          sections |-> sections]
    ELSE [result |-> Ok, sections |-> [sections EXCEPT ![s] = added.section]]

\* Settings::add_to_section, s being the section found with this name and
\* added what Section::add returned: [result, sections]
add_to_found(sections, s, added, key, line_cnt, settings_file) ==
    IF ~added.ok
    THEN [result |-> Err(DUPLICATED_KEY_MESSAGE_IDX,
              <<key, Dec(line_cnt), Dec(added.previous_line), settings_file>>),
          sections |-> sections]
    ELSE [result |-> Ok, sections |-> [sections EXCEPT ![s] = added.section]]

\* Faulty variant of add_to_section_at: the first entry of a new section gets
\* the number of the next line
add_to_section_at_next(sections, s, section_name, key, value, line_cnt, settings_file) ==
    IF s # 0
    THEN add_to_found(sections, s, Section_add(sections[s], key, value, line_cnt),
                      key, line_cnt, settings_file)
    ELSE [result |-> Ok,
          sections |-> Append(sections,
              Section_add(NewSection(section_name), key, value, line_cnt + 1).section)]

add_to_section_at(sections, s, section_name, key, value, line_cnt, settings_file) ==
    IF s # 0
    THEN add_to_found(sections, s, Section_add(sections[s], key, value, line_cnt),
                      key, line_cnt, settings_file)
    ELSE [result |-> Ok,
          sections |-> Append(sections,
              Section_add(NewSection(section_name), key, value, line_cnt).section)]

add_to_section(sections, section_name, key, value, line_cnt, settings_file) ==
    add_to_section_at(sections, get_section(sections, section_name), section_name,
                      key, value, line_cnt, settings_file)

\* the loop of Settings::load_private over the lines of the opened file:
\* [result, sections]
RECURSIVE load_lines(_, _, _, _, _)

\* a key/value line, added being what add_to_section returned (the ? operator)
load_added(f, path_str, line_cnt, current_section, added) ==
    IF ~added.result.ok THEN added
    ELSE load_lines(f, path_str, line_cnt + 1, current_section, added.sections)

\* Faulty variant of load_line: a header makes the section it names
load_line_makes(f, path_str, line_cnt, current_section, sections, lt) ==
    CASE lt.type = "SectionLine" ->
            load_lines(f, path_str, line_cnt + 1, lt.name,
                       IF get_section(sections, lt.name) = 0
                       THEN Append(sections, NewSection(lt.name))
                       ELSE sections)
      [] lt.type = "KeyAndValue" ->
            load_added(f, path_str, line_cnt, current_section,
                add_to_section(sections, current_section, lt.key, lt.value,
                               line_cnt, path_str))
      [] lt.type = "BadFormattedLine" ->
            [result |-> lt.error, sections |-> sections]
      [] lt.type = "EmptyLine" ->
            load_lines(f, path_str, line_cnt + 1, current_section, sections)

\* one line, lt being its LineType
load_line(f, path_str, line_cnt, current_section, sections, lt) ==
    CASE lt.type = "SectionLine" ->
            load_lines(f, path_str, line_cnt + 1, lt.name, sections)
      [] lt.type = "KeyAndValue" ->
            load_added(f, path_str, line_cnt, current_section,
                add_to_section(sections, current_section, lt.key, lt.value,
                               line_cnt, path_str))
      [] lt.type = "BadFormattedLine" ->
            [result |-> lt.error, sections |-> sections]
      [] lt.type = "EmptyLine" ->
            load_lines(f, path_str, line_cnt + 1, current_section, sections)

load_lines(f, path_str, line_cnt, current_section, sections) ==
    IF line_cnt > Len(f.lines) THEN [result |-> Ok, sections |-> sections]
    ELSE IF BufLineIsErr(f, line_cnt)
    THEN [result |-> Err(READING_FILE_ERROR_MESSAGE_IDX,
                         <<path_str, Dec(line_cnt), INVALID_DATA>>),
          sections |-> sections]
    ELSE load_line(f, path_str, line_cnt, current_section, sections,
                   line_type(BufLine(f, line_cnt), line_cnt, path_str))

\* Settings::load_private, read being what the loop returned: [result, self]
load_read(self, path, read) ==
    IF ~read.result.ok
    THEN [result |-> read.result, self |-> [self EXCEPT !.sections = read.sections]]
    ELSE [result |-> Ok, self |-> [path |-> path, sections |-> read.sections]]

load_private(self, path, f) ==
    IF ~f.exists
    THEN [result |-> Err(OPENING_FILE_ERROR_MESSAGE_IDX, <<path, NOT_FOUND>>),
          self |-> self]
    ELSE load_read(self, path,
                   load_lines(f, path, 1, GLOBAL_SECTION, self.sections))

\* Faulty variant of unload: the sections are left as they are
unload_keeps(self) == self

\* Settings::unload
unload(self) == [self EXCEPT !.sections = <<>>]

\* Faulty variant of load: a loaded instance is loaded again
load_again(self, path, f) ==
    IF load_private(self, path, f).result # Ok
    THEN [result |-> load_private(self, path, f).result,
          self |-> unload(load_private(self, path, f).self)]
    ELSE load_private(self, path, f)

\* Settings::load, r being what load_private returned: [result, self]
load_result(r) ==
    IF r.result # Ok THEN [result |-> r.result, self |-> unload(r.self)] ELSE r

load(self, path, f) ==
    IF is_initialize(self)
    THEN [result |-> Err(ALREADY_INITIALIZED_MESSAGE_IDX, <<self.path>>),
          self |-> self]
    ELSE load_result(load_private(self, path, f))

---------------------------------------------------------------------------
(* Typed values: T is bool, u8 or String *)

Bool(b) == [t |-> "bool", v |-> b]
U8(n) == [t |-> "u8", v |-> n]
String(s) == [t |-> "String", v |-> s]

\* Display (to_string) for T
to_string(value) ==
    CASE value.t = "bool" ->
            IF value.v THEN <<"t", "r", "u", "e">> ELSE <<"f", "a", "l", "s", "e">>
      [] value.t = "u8" -> Dec(value.v)
      [] value.t = "String" -> value.v

DigitValue(c) ==
    CASE c = "0" -> 0 [] c = "1" -> 1 [] c = "2" -> 2 [] c = "3" -> 3
      [] c = "4" -> 4 [] c = "5" -> 5 [] c = "6" -> 6 [] c = "7" -> 7
      [] c = "8" -> 8 [] c = "9" -> 9 [] OTHER -> -1

\* the digit loop of u8::from_str: the value, or the error kind
RECURSIVE ParseDigits(_, _)
ParseDigits(digits, result) ==
    IF digits = <<>> THEN [ok |-> TRUE, value |-> result, kind |-> ""]
    ELSE IF DigitValue(Head(digits)) < 0
    THEN [ok |-> FALSE, value |-> 0, kind |-> "InvalidDigit"]
    ELSE IF result * 10 + DigitValue(Head(digits)) > 255   \* u8::MAX
    THEN [ok |-> FALSE, value |-> 0, kind |-> "PosOverflow"]
    ELSE ParseDigits(Tail(digits), result * 10 + DigitValue(Head(digits)))

ParseU8(text) ==
    IF text = <<>> THEN [ok |-> FALSE, value |-> 0, kind |-> "Empty"]
    ELSE IF text = <<"+">> \/ text = <<"-">>
    THEN [ok |-> FALSE, value |-> 0, kind |-> "InvalidDigit"]
    ELSE ParseDigits(IF Head(text) = "+" THEN Tail(text) ELSE text, 0)

ParsedU8(r) ==
    IF r.ok THEN [ok |-> TRUE, value |-> U8(r.value), error |-> <<>>]
    ELSE [ok |-> FALSE, value |-> U8(0),
          error |-> <<"ParseIntError {\n    kind: ", r.kind, ",\n}">>]

\* str::parse::<T>: [ok, value, error], error being format!("{:#?}", error)
Parse(t, text) ==
    CASE t = "bool" ->
            IF text = <<"t", "r", "u", "e">>
            THEN [ok |-> TRUE, value |-> Bool(TRUE), error |-> <<>>]
            ELSE IF text = <<"f", "a", "l", "s", "e">>
            THEN [ok |-> TRUE, value |-> Bool(FALSE), error |-> <<>>]
            ELSE [ok |-> FALSE, value |-> Bool(FALSE), error |-> <<"ParseBoolError">>]
      [] t = "u8" -> ParsedU8(ParseU8(text))
      [] t = "String" -> [ok |-> TRUE, value |-> String(text), error |-> <<>>]

---------------------------------------------------------------------------
(* Settings::get, Settings::set, Settings::save *)

\* SettingsValue {value, error}; idx and params as in Err
SettingsValue(value, result) ==
    [value |-> value, error |-> result.error, idx |-> result.idx,
     params |-> result.params]

\* Settings::get: the match on value.parse::<T>()
get_parsed(section_name, key, default_value, parsed) ==
    IF parsed.ok THEN SettingsValue(parsed.value, Ok)
    ELSE SettingsValue(default_value,
             Err(PARSING_ERROR_MESSAGE_IDX, <<section_name, key, parsed.error>>))

\* Faulty variant of get_found: a stored text that does not parse is returned
\* as the default, with no diagnostic
get_found_silent(section_name, key, default_value, found) ==
    IF ~found.found
    THEN SettingsValue(default_value,
             Err(KEY_NOT_FOUND_MESSAGE_IDX, <<section_name, key>>))
    ELSE IF Parse(default_value.t, found.value).ok
    THEN SettingsValue(Parse(default_value.t, found.value).value, Ok)
    ELSE SettingsValue(default_value, Ok)

\* found being what Section::get returned
get_found(section_name, key, default_value, found) ==
    IF ~found.found
    THEN SettingsValue(default_value,
             Err(KEY_NOT_FOUND_MESSAGE_IDX, <<section_name, key>>))
    ELSE get_parsed(section_name, key, default_value,
                    Parse(default_value.t, found.value))

\* s being what get_section returned
get_at(self, s, section_name, key, default_value) ==
    IF s = 0
    THEN SettingsValue(default_value,
             Err(SECTION_NOT_FOUND_MESSAGE_IDX, <<section_name>>))
    ELSE get_found(section_name, key, default_value,
                   Section_get(self.sections[s], key))

get(self, section_name, key, default_value) ==
    get_at(self, get_section(self.sections, section_name), section_name, key,
           default_value)

\* Settings::set: [result, self]; r being what Section::set returned
set_found(self, s, section_name, key, r) ==
    IF ~r.found
    THEN [result |-> Err(KEY_NOT_FOUND_MESSAGE_IDX, <<section_name, key>>),
          self |-> self]
    ELSE [result |-> Ok, self |-> [self EXCEPT !.sections[s] = r.section]]

\* Faulty variant of set_at: a section that is not there is made
set_at_makes(self, s, section_name, key, value) ==
    IF s = 0
    THEN [result |-> Ok,
          self |-> [self EXCEPT !.sections = Append(@,
              [name |-> section_name,
               values |-> <<KeyValuePair(key, to_string(value), 0)>>])]]
    ELSE set_found(self, s, section_name, key,
                   Section_set(self.sections[s], key, to_string(value)))

set_at(self, s, section_name, key, value) ==
    IF s = 0
    THEN [result |-> Err(SECTION_NOT_FOUND_MESSAGE_IDX, <<section_name>>),
          self |-> self]
    ELSE set_found(self, s, section_name, key,
                   Section_set(self.sections[s], key, to_string(value)))

set(self, section_name, key, value) ==
    set_at(self, get_section(self.sections, section_name), section_name, key, value)

\* Faulty variants of PatchedAt: a save that leaves the line as it was read,
\* and a save that drops the comment of the line
PatchedAt_verbatim(key_value, line_text, index) == line_text

PatchedAt_no_comment(key_value, line_text, index) ==
    key_value.key \o <<" ", ASSIGN_TAG, " ">> \o key_value.value

\* the line save writes for a pair, given the line it read and the index of
\* its first '#' (lib.rs 394-399)
PatchedAt(key_value, line_text, index) ==
    IF index # 0
    THEN key_value.key \o <<" ", ASSIGN_TAG, " ">> \o key_value.value
         \o <<" ">> \o SubSeq(line_text, index, Len(line_text))
    ELSE key_value.key \o <<" ", ASSIGN_TAG, " ">> \o key_value.value

PatchedLine(key_value, line_text) ==
    PatchedAt(key_value, line_text, Find(line_text, COMMENT_TAG))

\* all the pairs, in the order save visits them
RECURSIVE AllPairs(_)
AllPairs(sections) ==
    IF sections = <<>> THEN <<>>
    ELSE Head(sections).values \o AllPairs(Tail(sections))

\* the patch loop of save (lib.rs 390-401): [panicked, line_texts]; indexing
\* line_texts past its end panics
RECURSIVE patch_lines(_, _)
patch_lines(pairs, line_texts) ==
    IF pairs = <<>> THEN [panicked |-> FALSE, line_texts |-> line_texts]
    ELSE IF Head(pairs).line_cnt - 1 >= Len(line_texts)
    THEN [panicked |-> TRUE, line_texts |-> line_texts]
    ELSE patch_lines(Tail(pairs),
             [line_texts EXCEPT ![Head(pairs).line_cnt] = PatchedLine(Head(pairs), @)])

\* the first line of the file that cannot be read, 0 for none
RECURSIVE FirstErrFrom(_, _)
FirstErrFrom(f, i) ==
    IF i > Len(f.lines) THEN 0
    ELSE IF BufLineIsErr(f, i) THEN i
    ELSE FirstErrFrom(f, i + 1)

\* Settings::save from line 390 on, patched being what the patch loop left
save_patched(f, patched) ==
    IF patched.panicked THEN [result |-> Ok, panicked |-> TRUE, file |-> f]
    ELSE [result |-> Ok, panicked |-> FALSE, file |-> Written(patched.line_texts)]

\* Faulty variant of save_read: the file is created anew before it is read
save_read_truncates(self, f, bad) ==
    IF bad # 0
    THEN [result |-> Err(READING_FILE_ERROR_MESSAGE_IDX,
                         <<self.path, Dec(bad), INVALID_DATA>>),
          panicked |-> FALSE, file |-> Written(<<>>)]
    ELSE save_patched(f, patch_lines(AllPairs(self.sections), BufLines(f)))

\* the read loop of save (lib.rs 367-382), bad being the first unreadable line
save_read(self, f, bad) ==
    IF bad # 0
    THEN [result |-> Err(READING_FILE_ERROR_MESSAGE_IDX,
                         <<self.path, Dec(bad), INVALID_DATA>>),
          panicked |-> FALSE, file |-> f]
    ELSE save_patched(f, patch_lines(AllPairs(self.sections), BufLines(f)))

\* Faulty variant of save: the file is opened whether there is a path or not
save_always(self, f) ==
    IF ~f.exists
    THEN [result |-> Err(OPENING_FILE_ERROR_MESSAGE_IDX, <<self.path, NOT_FOUND>>),
          panicked |-> FALSE, file |-> f]
    ELSE save_read(self, f, FirstErrFrom(f, 1))

\* Settings::save: [result, panicked, file], file being what is at path afterwards
save(self, f) ==
    IF ~is_initialize(self) THEN [result |-> Ok, panicked |-> FALSE, file |-> f]
    ELSE IF ~f.exists
    THEN [result |-> Err(OPENING_FILE_ERROR_MESSAGE_IDX, <<self.path, NOT_FOUND>>),
          panicked |-> FALSE, file |-> f]
    ELSE save_read(self, f, FirstErrFrom(f, 1))

---------------------------------------------------------------------------
(* The files and arguments the model draws from *)

MaxLineLen == 4     \* length of the lines built from Alphabet
MaxLines == 2       \* lines of the files built from SampleLines
MaxTallLines == 4   \* lines of the files built from SectionLines
MaxCoreLines == 2   \* lines of the files built from CoreLines
MaxSets == 2        \* successful set calls after a load
MaxFileSets == 1    \* the same, where save is called too
MaxSaves == 1       \* save calls after a load
MaxExt == 1
MaxParams == 3         \* writes by other programs after a load

Alphabet == {"k", " ", "=", "#", "[", "]"}

RECURSIVE SeqsUpTo(_, _)
SeqsUpTo(S, n) ==
    IF n = 0 THEN {<<>>}
    ELSE LET shorter == SeqsUpTo(S, n - 1)
         IN  shorter \cup {Append(s, x) : s \in {t \in shorter : Len(t) = n - 1},
                                          x \in S}

K == <<"k">>
J == <<"j">>
B == <<"B">>

SampleLines ==
    { <<"k", " ", "=", " ", "v">>,                      \* k = v
      <<"k", " ", "=", " ", "v", " ", "#", "c">>,       \* k = v #c
      <<" ", "k", "=", "v", " ", " ", "#", " ", "c">>,  \*  k=v  # c
      <<"j", " ", "=", " ", "a", "=", "b">>,            \* j = a=b
      <<"j", " ", "=">>,                                \* j =
      <<"j", " ", "=", " ", "7", "\r">>,                \* j = 7, CR before LF
      <<"[", "B", "]">>,                                \* [B]
      <<"#", "c">>,                                     \* #c
      <<>>,                                             \* blank
      <<"[", "B">>,                                     \* no ']'
      <<"B", "]">>,                                     \* no '['
      <<"k">>,                                          \* no '='
      <<"=", "v">>,                                     \* no key
      <<"k", BAD>> }                                    \* not UTF-8

SectionLines ==
    { <<"k", " ", "=", " ", "v">>,
      <<"j", " ", "=", " ", "7", " ", "#", "c">>,
      <<"[", "B", "]">>,
      <<"[", "]">>,
      <<"k">> }

CoreLines ==
    { <<"k", " ", "=", " ", "v", " ", "#", "c">>,       \* k = v #c
      <<" ", "j", "=", "7">>,                           \*  j=7
      <<"[", "B", "]">> }                               \* [B]

\* a file with these pieces; without a final '\n' the last piece is not empty,
\* and the empty file has no piece
File(lines, nl) == [exists |-> TRUE, lines |-> lines, nl |-> nl /\ lines # <<>>]

\* the files of one line of at most n characters
WideFiles(n) == {File(<<l>>, TRUE) : l \in SeqsUpTo(Alphabet, n)}

\* the files of sample lines, and those of one line with no '\n' after it
SampleFiles ==
    {File(ls, TRUE) : ls \in SeqsUpTo(SampleLines, MaxLines)}
    \cup {File(<<l>>, FALSE) : l \in SampleLines \ {<<>>}}

TallFiles == {File(ls, TRUE) : ls \in SeqsUpTo(SectionLines, MaxTallLines)}

\* the files that begin with two headers
HeaderFiles ==
    {File(<<h1, h2>> \o ls, TRUE) :
        h1 \in {<<"[", "B", "]">>, <<"[", "]">>},
        h2 \in {<<"[", "B", "]">>, <<"[", "]">>},
        ls \in {t \in SeqsUpTo(SectionLines, MaxTallLines - 1) :
                   Len(t) = MaxTallLines - 1}}

CoreFiles == {File(ls, TRUE) : ls \in SeqsUpTo(CoreLines, MaxCoreLines)}

P1 == <<"a">>
P2 == <<"b">>
P3 == <<"{", "}">>
Paths == {P1, P2, P3}

\* what is at P2: a file that loads
OtherFile ==
    File(<< <<"[", "L", "O", "G", "]">>,
            <<"k", " ", "=", " ", "t", "r", "u", "e">> >>, TRUE)

FileAt(p) == IF p \in DOMAIN fs THEN fs[p] ELSE NoFile

SectionArgs == {GLOBAL_SECTION, B}
KeyArgs == {K, J}
SetValues == {Bool(FALSE), U8(7), String(<<"w">>)}
Defaults == {Bool(TRUE), U8(0), String(<<"?">>)}
\* the values set before a save: one line, and two lines
FileSetValues == {String(<<"w">>), String(<<"w", "\n", "x">>)}

---------------------------------------------------------------------------
(* The state machine *)

\* the instance is owned by one thread
NoThreads == [mutex |-> "none", main |-> "alone", thread1 |-> "none", wait |-> TRUE]

InitWith(files) ==
    /\ \E f \in files :
           fs = [p \in Paths |-> IF p = P1 THEN f
                                 ELSE IF p = P2 THEN OtherFile ELSE NoFile]
    /\ settings = NewSettings
    /\ last = [op |-> "new"]
    /\ loaded = [path |-> <<>>, file |-> NoFile]
    /\ sets = <<>>
    /\ nsaves = 0
    /\ ext = 0
    /\ threads = NoThreads

\* a panic in save ends the thread that owns the instance (the save that drop
\* then calls while the panic unwinds reads the same file and panics again),
\* and a dropped instance is gone
Alive ==
    /\ ~(last.op = "save" /\ last.panicked) /\ last.op # "drop"
    /\ threads = NoThreads

\* r being what load returned
LoadReturns(p, r) ==
    /\ settings' = r.self
    /\ last' = [op |-> "load", path |-> p, result |-> r.result,
                prev |-> IF last.op = "load" THEN last.result ELSE Ok]
    /\ IF r.result = Ok
       THEN /\ loaded' = [path |-> p, file |-> FileAt(p)]
            /\ sets' = <<>> /\ nsaves' = 0 /\ ext' = 0
       ELSE UNCHANGED <<loaded, sets, nsaves, ext>>
    /\ UNCHANGED <<fs, threads>>

Load(p) ==
    /\ Alive
    /\ LoadReturns(p, load(settings, p, FileAt(p)))

Get(section_name, key, default_value) ==
    /\ Alive
    /\ last' = [op |-> "get", section |-> section_name, key |-> key,
                default |-> default_value,
                result |-> get(settings, section_name, key, default_value)]
    /\ UNCHANGED <<fs, settings, loaded, sets, nsaves, ext, threads>>

SetReturns(section_name, key, value, r) ==
    /\ settings' = r.self
    /\ last' = [op |-> "set", section |-> section_name, key |-> key,
                value |-> value, result |-> r.result]
    /\ sets' = IF r.result = Ok
               THEN Append(sets, [section |-> section_name, key |-> key,
                                  value |-> value])
               ELSE sets
    /\ UNCHANGED <<fs, loaded, nsaves, ext, threads>>

Set(section_name, key, value, max) ==
    /\ Alive
    /\ Len(sets) < max
    /\ SetReturns(section_name, key, value, set(settings, section_name, key, value))

SaveReturns(r) ==
    /\ fs' = IF is_initialize(settings)
             THEN [fs EXCEPT ![settings.path] = r.file] ELSE fs
    /\ last' = [op |-> "save", result |-> r.result, panicked |-> r.panicked]
    /\ nsaves' = IF is_initialize(settings) THEN nsaves + 1 ELSE nsaves
    /\ UNCHANGED <<settings, loaded, sets, ext, threads>>

Save ==
    /\ Alive
    /\ nsaves < MaxSaves
    /\ SaveReturns(save(settings, FileAt(settings.path)))

\* impl Drop for Settings, r being what save returned: an Err is printed to
\* the error stream, a panic of save leaves drop as a panic
DropReturns(r) ==
    /\ fs' = IF is_initialize(settings)
             THEN [fs EXCEPT ![settings.path] = r.file] ELSE fs
    /\ last' = [op |-> "drop", result |-> r.result, panicked |-> r.panicked,
                eprint |-> IF r.result # Ok /\ ~r.panicked
                           THEN <<settings.path, r.result.error>> ELSE <<>>]
    /\ UNCHANGED <<settings, loaded, sets, nsaves, ext, threads>>

Drop ==
    /\ Alive
    /\ DropReturns(save(settings, FileAt(settings.path)))

\* another program rewrites the loaded file: it drops the last line, or
\* removes the file
ExternalWrite ==
    /\ Alive
    /\ is_initialize(settings)
    /\ ext < MaxExt
    /\ fs[settings.path].exists
    /\ \E f \in { File(SubSeq(fs[settings.path].lines, 1,
                              Len(fs[settings.path].lines) - 1),
                       Len(fs[settings.path].lines) > 1),
                  NoFile } :
           /\ f # fs[settings.path]
           /\ fs' = [fs EXCEPT ![settings.path] = f]
    /\ last' = [op |-> "external"]
    /\ ext' = ext + 1
    /\ UNCHANGED <<settings, loaded, sets, nsaves, threads>>

\* load, get and set, on the files built from CoreLines
Init == InitWith(CoreFiles)

Next ==
    \/ \E p \in Paths : Load(p)
    \/ \E s \in SectionArgs, k \in KeyArgs, d \in Defaults : Get(s, k, d)
    \/ \E s \in SectionArgs, k \in KeyArgs, v \in SetValues : Set(s, k, v, MaxSets)

Spec == Init /\ [][Next]_vars

\* load alone, on every file
InitLoad ==
    InitWith(WideFiles(MaxLineLen) \cup SampleFiles \cup TallFiles \cup HeaderFiles)

NextLoad == \E p \in Paths : Load(p)

SpecLoad == InitLoad /\ [][NextLoad]_vars

\* load, set, save and drop, of the file at P1, and the other programs that
\* write it
InitFile == InitWith(WideFiles(MaxLineLen - 1) \cup SampleFiles)

NextFile ==
    \/ Load(P1)
    \/ \E k \in KeyArgs, v \in FileSetValues : Set(GLOBAL_SECTION, k, v, MaxFileSets)
    \/ Save
    \/ Drop
    \/ ExternalWrite

SpecFile == InitFile /\ [][NextFile]_vars

\* format_message alone, on every template and on the parameter lists of at
\* most MaxParams texts of ParamTexts
ParamTexts == {<<"a">>, <<"b">>, <<"{", "}">>}

Format(message_idx, params) ==
    /\ Alive
    /\ last' = [op |-> "format", message_idx |-> message_idx, params |-> params,
                panicked |-> format_message_panics(message_idx, params),
                message |-> IF format_message_panics(message_idx, params) THEN <<>>
                            ELSE format_message(message_idx, params)]
    /\ UNCHANGED <<fs, settings, loaded, sets, nsaves, ext, threads>>

NextFormat ==
    \E message_idx \in 0..(Len(SETTINGS_MESSAGES) - 1),
       params \in SeqsUpTo(ParamTexts, MaxParams) : Format(message_idx, params)

SpecFormat == InitWith({File(<<>>, TRUE)}) /\ [][NextFormat]_vars

\* load, one set of a String and save, on the files built from CoreLines
RoundValues ==
    { String(<<"w">>),
      String(<<"a", "#", "b">>),
      String(<<"a", "=", "b">>),
      String(<<"a", "]">>),
      String(<<" ", "a">>),
      String(<<"a", " ">>),
      String(<<>>) }

NextRound ==
    \/ Load(P1)
    \/ \E s \in SectionArgs, k \in KeyArgs, v \in RoundValues :
           Set(s, k, v, MaxFileSets)
    \/ Save

SpecRound == Init /\ [][NextRound]_vars

\* load, one set of a String and save after save, on the files built from
\* CoreLines
SaveAgain ==
    /\ Alive
    /\ nsaves < MaxSaves + 1
    /\ SaveReturns(save(settings, FileAt(settings.path)))

NextTwice ==
    \/ Load(P1)
    \/ \E s \in SectionArgs, k \in KeyArgs, v \in RoundValues :
           Set(s, k, v, MaxFileSets)
    \/ SaveAgain

SpecTwice == Init /\ [][NextTwice]_vars

\* load and save, on every file
NextReload ==
    \/ \E p \in Paths : Load(p)
    \/ Save

SpecReload == InitLoad /\ [][NextReload]_vars

\* another program writes bytes that are not UTF-8 at the end of the loaded
\* file
ExternalCorrupt ==
    /\ Alive
    /\ is_initialize(settings)
    /\ ext < MaxExt
    /\ fs[settings.path].exists
    /\ fs' = [fs EXCEPT ![settings.path] =
                 File(Append(fs[settings.path].lines, <<BAD>>), TRUE)]
    /\ last' = [op |-> "external"]
    /\ ext' = ext + 1
    /\ UNCHANGED <<settings, loaded, sets, nsaves, threads>>

\* load, set and save of the files built from CoreLines, and the other
\* programs that write them
NextFrame ==
    \/ Load(P1)
    \/ \E s \in SectionArgs, k \in KeyArgs, v \in FileSetValues :
           Set(s, k, v, MaxFileSets)
    \/ Save
    \/ ExternalWrite
    \/ ExternalCorrupt

SpecFrame == Init /\ [][NextFrame]_vars

\* every call of the interface and drop, on the files built from CoreLines
NextAll ==
    \/ \E p \in Paths : Load(p)
    \/ \E s \in SectionArgs, k \in KeyArgs : Get(s, k, String(<<"?">>))
    \/ \E s \in SectionArgs, k \in KeyArgs, v \in SetValues : Set(s, k, v, MaxSets)
    \/ Save
    \/ Drop

SpecAll == Init /\ [][NextAll]_vars

---------------------------------------------------------------------------
(* tests::multi_thread_settings: one instance in an Arc<Mutex<Settings>>,   *)
(* the test's thread (main) that reads it and the thread it spawns          *)
(* (thread1) that writes it. threads.mutex is the holder of the lock,       *)
(* threads.main and threads.thread1 are the statements the threads are at.  *)
(* The counter cnt only shapes what is printed and is left out.             *)

BOOL_VALUE == <<"b", "o", "o", "l", "_", "v", "a", "l", "u", "e">>

\* test_files/settings.ini: GLOBAL holds bool_value, true or false, with
\* other lines around it
BoolValueLines ==
    { BOOL_VALUE \o <<" ", "=", " ", "t", "r", "u", "e">>,
      BOOL_VALUE \o <<" ", "=", " ", "f", "a", "l", "s", "e">>,
      BOOL_VALUE \o <<"=", "t", "r", "u", "e", " ", "#", "c">> }

ThreadFiles ==
    { File(before \o <<l>> \o after, TRUE) :
        before \in {<<>>, << <<"k", " ", "=", " ", "v">> >>},
        l \in BoolValueLines,
        after \in {<<>>, << <<"[", "B", "]">>,
                           BOOL_VALUE \o <<"=", "t", "r", "u", "e">> >>} }

\* the test after its first statements:
\* assert_eq!(Result::Ok(()), settings.load(settings_file_path)), and
\* let mut wait = true
InitThreads ==
    /\ \E f \in ThreadFiles :
           /\ fs = [p \in Paths |-> IF p = P1 THEN f
                                    ELSE IF p = P2 THEN OtherFile ELSE NoFile]
           /\ load(NewSettings, P1, f).result = Ok
           /\ settings = load(NewSettings, P1, f).self
           /\ loaded = [path |-> P1, file |-> f]
    /\ last = [op |-> "load", path |-> P1, result |-> Ok, prev |-> Ok]
    /\ sets = <<>>
    /\ nsaves = 0
    /\ ext = 0
    /\ threads = [mutex |-> "none", main |-> "spawn", thread1 |-> "none",
                  wait |-> TRUE]

\* a lock that lets every caller in
Lock_open(thread, to) ==
    /\ threads' = [threads EXCEPT !.mutex = thread, ![thread] = to]
    /\ UNCHANGED <<fs, settings, last, loaded, sets, nsaves, ext>>

\* settings.lock(): the caller goes on when no thread holds the lock
Lock(thread, to) ==
    /\ threads.mutex = "none"
    /\ threads' = [threads EXCEPT !.mutex = thread, ![thread] = to]
    /\ UNCHANGED <<fs, settings, last, loaded, sets, nsaves, ext>>

\* the MutexGuard is dropped at the end of the statement or block
Unlock(thread, to) ==
    /\ threads.mutex = thread
    /\ threads' = [threads EXCEPT !.mutex = "none", ![thread] = to]
    /\ UNCHANGED <<fs, settings, last, loaded, sets, nsaves, ext>>

\* a get through the guard; its value is what the caller keeps
LockedGet(thread, default_value, to, r) ==
    /\ threads.mutex = thread
    /\ last' = [op |-> "get", section |-> GLOBAL_SECTION, key |-> BOOL_VALUE,
                default |-> default_value, result |-> r, thread |-> thread]
    /\ threads' = [threads EXCEPT ![thread] = to,
                                  !.wait = IF thread = "main" /\ to = "unlock"
                                           THEN r.value.v ELSE @]
    /\ UNCHANGED <<fs, settings, loaded, sets, nsaves, ext>>

\* a set through the guard
LockedSet(thread, value, to, r) ==
    /\ threads.mutex = thread
    /\ settings' = r.self
    /\ last' = [op |-> "set", section |-> GLOBAL_SECTION, key |-> BOOL_VALUE,
                value |-> value, result |-> r.result, thread |-> thread]
    /\ sets' = IF r.result = Ok
               THEN Append(sets, [section |-> GLOBAL_SECTION, key |-> BOOL_VALUE,
                                  value |-> value])
               ELSE sets
    /\ threads' = [threads EXCEPT ![thread] = to]
    /\ UNCHANGED <<fs, loaded, nsaves, ext>>

\* builder.name(..).spawn(..): thread1 starts, and sleeps
MainSpawn ==
    /\ threads.main = "spawn"
    /\ threads' = [threads EXCEPT !.main = "while", !.thread1 = "sleep"]
    /\ UNCHANGED <<fs, settings, last, loaded, sets, nsaves, ext>>

\* while wait
MainWhile ==
    /\ threads.main = "while"
    /\ threads' = [threads EXCEPT !.main = IF threads.wait THEN "lock" ELSE "join"]
    /\ UNCHANGED <<fs, settings, last, loaded, sets, nsaves, ext>>

\* wait = settings.lock().unwrap().get(GLOBAL_SECTION, "bool_value", true).value
MainLock == threads.main = "lock" /\ Lock("main", "get")

MainGet ==
    /\ threads.main = "get"
    /\ LockedGet("main", Bool(TRUE), "unlock",
                 get(settings, GLOBAL_SECTION, BOOL_VALUE, Bool(TRUE)))

\* the end of the block, then the sleep and the print
MainUnlock == threads.main = "unlock" /\ Unlock("main", "while")

\* thread_handler.join()
MainJoin ==
    /\ threads.main = "join"
    /\ threads.thread1 = "end"
    /\ threads' = [threads EXCEPT !.main = "lock2"]
    /\ UNCHANGED <<fs, settings, last, loaded, sets, nsaves, ext>>

\* assert!(Result::Ok(()) == settings.lock().unwrap().set(.., true))
MainLock2 == threads.main = "lock2" /\ Lock("main", "set")

MainSet ==
    /\ threads.main = "set"
    /\ LockedSet("main", Bool(TRUE), "unlock2",
                 set(settings, GLOBAL_SECTION, BOOL_VALUE, Bool(TRUE)))

MainUnlock2 ==
    /\ threads.main = "unlock2"
    /\ Unlock("main", IF last.result = Ok THEN "lock3" ELSE "panicked")

\* let result = settings.lock().unwrap().get(GLOBAL_SECTION, "bool_value", false)
MainLock3 == threads.main = "lock3" /\ Lock("main", "get2")

MainGet2 ==
    /\ threads.main = "get2"
    /\ LockedGet("main", Bool(FALSE), "unlock3",
                 get(settings, GLOBAL_SECTION, BOOL_VALUE, Bool(FALSE)))

\* assert!(result.error.len() == 0 && true == result.value)
MainUnlock3 ==
    /\ threads.main = "unlock3"
    /\ Unlock("main", IF last.result.error = <<>> /\ last.result.value = Bool(TRUE)
                      THEN "drop" ELSE "panicked")

\* the end of the test (or its panic) drops the Arc, and the instance with it
MainDrop ==
    /\ threads.main \in {"drop", "panicked"}
    /\ fs' = [fs EXCEPT ![settings.path] = save(settings, FileAt(settings.path)).file]
    /\ last' = [op |-> "drop", result |-> save(settings, FileAt(settings.path)).result,
                panicked |-> save(settings, FileAt(settings.path)).panicked,
                eprint |-> IF save(settings, FileAt(settings.path)).result # Ok
                           THEN <<settings.path>> ELSE <<>>]
    /\ threads' = [threads EXCEPT !.main = "done"]
    /\ UNCHANGED <<settings, loaded, sets, nsaves, ext>>

\* the statements of the test
NextMain ==
    \/ MainSpawn \/ MainWhile \/ MainLock \/ MainGet \/ MainUnlock
    \/ MainJoin \/ MainLock2 \/ MainSet \/ MainUnlock2
    \/ MainLock3 \/ MainGet2 \/ MainUnlock3

\* let _ = thread1_settings.lock().unwrap().set(GLOBAL_SECTION, "bool_value", false)
Thread1Lock == threads.thread1 = "sleep" /\ Lock("thread1", "set")

Thread1Set ==
    /\ threads.thread1 = "set"
    /\ LockedSet("thread1", Bool(FALSE), "unlock",
                 set(settings, GLOBAL_SECTION, BOOL_VALUE, Bool(FALSE)))

Thread1Unlock == threads.thread1 = "unlock" /\ Unlock("thread1", "end")

NextThread1 == Thread1Lock \/ Thread1Set \/ Thread1Unlock

NextThreads == NextMain \/ MainDrop \/ NextThread1

\* Every thread that can run does run; a thread that asks for the lock gets
\* it when the lock is free again and again, which the 100 ms the reader
\* sleeps outside the lock in every round provide.
SpecThreads ==
    /\ InitThreads
    /\ [][NextThreads]_vars
    /\ WF_vars(NextMain)
    /\ WF_vars(Thread1Set \/ Thread1Unlock)
    /\ SF_vars(Thread1Lock)

---------------------------------------------------------------------------
(* Claims about save: C1, C2, C3 *)

\* save has returned Ok: the first save since the load that succeeded, after
\* n successful sets, no other program having written the file in between
SavedAfter(n) ==
    /\ last.op = "save" /\ last.result = Ok /\ ~last.panicked
    /\ is_initialize(settings)
    /\ nsaves = 1 /\ ext = 0 /\ Len(sets) = n

\* the content of a file, byte by byte
RECURSIVE BytesFrom(_, _)
BytesFrom(f, i) ==
    IF i > Len(f.lines) THEN <<>>
    ELSE f.lines[i] \o (IF i < Len(f.lines) \/ f.nl THEN <<"\n">> ELSE <<>>)
         \o BytesFrom(f, i + 1)

Bytes(f) == BytesFrom(f, 1)

\* each of these texts followed by '\n'
RECURSIVE Terminated(_)
Terminated(texts) ==
    IF texts = <<>> THEN <<>>
    ELSE Head(texts) \o <<"\n">> \o Terminated(Tail(texts))

\* a line from its first '#' on, after one space; nothing for a line without '#'
CommentTail(text) ==
    IF Find(text, COMMENT_TAG) = 0 THEN <<>>
    ELSE <<" ">> \o SubSeq(text, Find(text, COMMENT_TAG), Len(text))

\* "key = value", then the comment of the line
EntryLine(key, value, text) == key \o <<" ", "=", " ">> \o value \o CommentTail(text)

\* what a line of a file that loads reads after load and save: a key/value
\* line is written again from its key and its value, any other line is kept
Rewritten(text) ==
    LET lt == line_type(text, 1, <<>>)
    IN  IF lt.type = "KeyAndValue" THEN EntryLine(lt.key, lt.value, text) ELSE text

\* the file is what save writes for it: every line ends with '\n' alone, and
\* every key/value line reads "key = value", or "key = value #comment"
Canonical(f) ==
    /\ f.lines = <<>> \/ f.nl
    /\ \A i \in 1..Len(f.lines) :
           BufLine(f, i) = f.lines[i] /\ Rewritten(f.lines[i]) = f.lines[i]

\* every line of the file ends with '\n', with no carriage return before it
PlainLineEnds(f) ==
    /\ f.lines = <<>> \/ f.nl
    /\ \A i \in 1..Len(f.lines) : BufLine(f, i) = f.lines[i]

SourceLine(section_name, key) ==
    LET section == settings.sections[get_section(settings.sections, section_name)]
    IN  section.values[KeyIndex(section.values, key)].line_cnt

\* text ends with tail
EndsWith(text, tail) ==
    /\ Len(tail) <= Len(text)
    /\ SubSeq(text, Len(text) - Len(tail) + 1, Len(text)) = tail

SaveStep ==
    /\ nsaves' = nsaves + 1
    /\ last'.op = "save" /\ last'.result = Ok /\ ~last'.panicked

\* the lines C3 describes: the line of each entry written from its key, its
\* value and the comment of the line read, every other line as read
C3_Lines(sections, line_texts) ==
    [i \in 1..Len(line_texts) |->
        IF \E j \in 1..Len(AllPairs(sections)) : AllPairs(sections)[j].line_cnt = i
        THEN LET key_value ==
                     CHOOSE e \in {AllPairs(sections)[j] :
                                      j \in 1..Len(AllPairs(sections))} :
                         e.line_cnt = i
             IN  EntryLine(key_value.key, key_value.value, line_texts[i])
        ELSE line_texts[i]]

\* C3 as the spec states it: the file written by a save that returns Ok has
\* as many lines as the file read, and equals it line by line but for the
\* lines of the entries, which read "{key} = {value}" and then the comment
C3_Original ==
    [][SaveStep =>
          fs'[settings.path].lines =
              C3_Lines(settings.sections, BufLines(fs[settings.path]))]_vars

---------------------------------------------------------------------------
(* Claims about load: C4, C5, C6, C7 *)

\* load returned this result for a reason other than AlreadyInitialized
Failed(result) == ~result.ok /\ result.idx # ALREADY_INITIALIZED_MESSAGE_IDX

\* C4: a load that fails on an instance that is not loaded leaves it as
\* Settings::new made it, with no section and an empty path; the load that
\* follows a failed one returns what it returns on a fresh instance, and leaves
\* the model it leaves there
C4_FailedLoad ==
    last.op = "load" =>
        /\ Failed(last.result) => settings = NewSettings
        /\ Failed(last.prev) =>
               /\ last.result = load(NewSettings, last.path, FileAt(last.path)).result
               /\ settings = load(NewSettings, last.path, FileAt(last.path)).self

\* the file at P1 has a duplicated key after a line that was accepted; the
\* load of it failed, and the load of the file at P2 that follows succeeded
C4_Witness ==
    /\ last.op = "load" /\ last.path = P2 /\ last.result = Ok
    /\ last.prev.idx = DUPLICATED_KEY_MESSAGE_IDX
    /\ last.prev.params[4] = P1
    /\ settings.path = P2 /\ settings.sections # <<>>

\* C5: on a loaded instance every load, of any path, returns AlreadyInitialized
\* with the path of the load that succeeded, and changes nothing of the model
C5_SecondLoad ==
    [][is_initialize(settings) /\ last'.op = "load" =>
          /\ last'.result = Err(ALREADY_INITIALIZED_MESSAGE_IDX, <<loaded.path>>)
          /\ settings' = settings]_vars

\* a load of another file that exists, on a loaded instance
C5_Witness ==
    /\ last.op = "load"
    /\ last.result.idx = ALREADY_INITIALIZED_MESSAGE_IDX
    /\ last.path # loaded.path /\ FileAt(last.path).exists
    /\ settings.path = loaded.path /\ settings.sections # <<>>

\* the lines of a file as load reads them, classified
Lines(f) == [i \in 1..Len(f.lines) |-> line_type(BufLine(f, i), i, <<>>)]

\* line i of the file cannot be read, or is malformed
BadLine(f, i) == BufLineIsErr(f, i) \/ Lines(f)[i].type = "BadFormattedLine"

\* the section the key/value line i is routed to: the one named by the last
\* header above it, GLOBAL when there is none
RECURSIVE RoutedTo(_, _)
RoutedTo(f, i) ==
    IF i = 0 THEN GLOBAL_SECTION
    ELSE IF ~BufLineIsErr(f, i) /\ Lines(f)[i].type = "SectionLine"
    THEN Lines(f)[i].name
    ELSE RoutedTo(f, i - 1)

IsEntry(f, i) == ~BufLineIsErr(f, i) /\ Lines(f)[i].type = "KeyAndValue"

\* the pairs <<i, j>> of key/value lines with one key, routed to one section
DuplicatedPairs(f) ==
    {p \in (1..Len(f.lines)) \X (1..Len(f.lines)) :
        /\ p[1] < p[2]
        /\ IsEntry(f, p[1]) /\ IsEntry(f, p[2])
        /\ Lines(f)[p[1]].key = Lines(f)[p[2]].key
        /\ RoutedTo(f, p[1]) = RoutedTo(f, p[2])}

\* the pair whose second line comes first
FirstDuplicated(f) ==
    CHOOSE p \in DuplicatedPairs(f) :
        \A q \in DuplicatedPairs(f) :
            p[2] < q[2] \/ (p[2] = q[2] /\ p[1] <= q[1])

\* load has returned from reading a file into an instance that was not loaded
LoadReturned ==
    /\ last.op = "load"
    /\ last.result.idx # ALREADY_INITIALIZED_MESSAGE_IDX
    /\ FileAt(last.path).exists

DuplicatedKey(f, p) ==
    Err(DUPLICATED_KEY_MESSAGE_IDX,
        <<Lines(f)[p[2]].key, Dec(p[2]), Dec(p[1]), last.path>>)

\* C6 as the spec states it: load of a file with a duplicated key fails with
\* DuplicatedKey, the key, the line of the second occurrence, the line of the
\* first and the path
C6_Original ==
    LoadReturned =>
        LET f == FileAt(last.path)
        IN  DuplicatedPairs(f) # {} =>
                last.result = DuplicatedKey(f, FirstDuplicated(f))

\* C6: when no line above the second occurrence is malformed or unreadable,
\* load of a file with a duplicated key fails with DuplicatedKey, the key, the
\* line of the second occurrence, the line of the first and the path, and
\* the instance holds no entry
C6_DuplicatedKey ==
    LoadReturned =>
        LET f == FileAt(last.path)
        IN  /\ DuplicatedPairs(f) # {}
            /\ \A i \in 1..FirstDuplicated(f)[2] : ~BadLine(f, i)
            => /\ last.result = DuplicatedKey(f, FirstDuplicated(f))
               /\ settings = NewSettings

\* the key is at lines 1 and 4, with the headers of other sections in between
C6_Witness ==
    /\ last.op = "load"
    /\ last.result.idx = DUPLICATED_KEY_MESSAGE_IDX
    /\ last.result.params[2] = Dec(4) /\ last.result.params[3] = Dec(1)
    /\ Lines(FileAt(last.path))[2].type = "SectionLine"
    /\ Lines(FileAt(last.path))[3].type = "SectionLine"

\* the first line of the file that is malformed, 0 when there is none
RECURSIVE FirstMalformedFrom(_, _)
FirstMalformedFrom(f, i) ==
    IF i > Len(f.lines) THEN 0
    ELSE IF ~BufLineIsErr(f, i) /\ Lines(f)[i].type = "BadFormattedLine" THEN i
    ELSE FirstMalformedFrom(f, i + 1)

FirstMalformed(f) == FirstMalformedFrom(f, 1)

\* the text of a line without its comment and the space around it
Content(text) == StripComment(text)

\* the text before the first '=' of a line, without the space around it
BeforeAssign(text) == Trim(SubSeq(text, 1, Find(text, ASSIGN_TAG) - 1))

\* the defects C7 names
NoEndTag(text) == starts_with(Content(text)) /\ ~ends_with(Content(text))
NoStartTag(text) == ~starts_with(Content(text)) /\ ends_with(Content(text))
NoAssign(text) == Find(Content(text), ASSIGN_TAG) = 0
NoKey(text) ==
    Find(Content(text), ASSIGN_TAG) # 0 /\ BeforeAssign(Content(text)) = <<>>

\* the diagnostics that match a defect of line n, with that line number
Matching(text, n, path) ==
    (IF NoEndTag(text)
     THEN {Err(MISSING_END_SECTION_TAG_MESSAGE_IDX, <<<<"]">>, Dec(n), path>>)}
     ELSE {})
    \cup (IF NoStartTag(text)
          THEN {Err(MISSING_START_SECTION_TAG_MESSAGE_IDX, <<<<"[">>, Dec(n), path>>)}
          ELSE {})
    \cup (IF NoAssign(text)
          THEN {Err(MISSING_ASSIGN_TAG_MESSAGE_IDX, <<<<"=">>, Dec(n), path>>)}
          ELSE {})
    \cup (IF NoKey(text)
          THEN {Err(MISSING_KEY_MESSAGE_IDX, <<Dec(n), path>>)}
          ELSE {})

\* the diagnostic of line n: a bracket at one end only is reported before a
\* missing '=', and a missing '=' before a missing key
Diagnosed(text, n, path) ==
    IF NoEndTag(text)
    THEN Err(MISSING_END_SECTION_TAG_MESSAGE_IDX, <<<<"]">>, Dec(n), path>>)
    ELSE IF NoStartTag(text)
    THEN Err(MISSING_START_SECTION_TAG_MESSAGE_IDX, <<<<"[">>, Dec(n), path>>)
    ELSE IF NoAssign(text)
    THEN Err(MISSING_ASSIGN_TAG_MESSAGE_IDX, <<<<"=">>, Dec(n), path>>)
    ELSE Err(MISSING_KEY_MESSAGE_IDX, <<Dec(n), path>>)

\* C7 as the spec states it, for the files whose lines can all be read: load
\* of a file whose first malformed line is line L fails with a diagnostic that
\* holds L and matches a defect of the line
C7_Original ==
    LoadReturned =>
        LET f == FileAt(last.path)
            L == FirstMalformed(f)
        IN  L # 0 /\ (\A i \in 1..Len(f.lines) : ~BufLineIsErr(f, i)) =>
                last.result \in Matching(BufLine(f, L), L, last.path)

\* C7: when no line above the first malformed line L is unreadable or holds a
\* key for the second time in its section, load fails with the diagnostic of
\* line L, which holds L, counted from 1 with the blank and the comment lines:
\* MissingEndSectionTag for '[' at the start without ']' at the end, else
\* MissingStartSectionTag for ']' at the end without '[' at the start, else
\* MissingAssignTag for no '=', else MissingKey for nothing before the first '='
C7_MalformedLine ==
    LoadReturned =>
        LET f == FileAt(last.path)
            L == FirstMalformed(f)
        IN  /\ L # 0
            /\ \A i \in 1..L : ~BufLineIsErr(f, i)
            /\ \A p \in DuplicatedPairs(f) : p[2] > L
            => /\ last.result = Diagnosed(BufLine(f, L), L, last.path)
               /\ last.result \in Matching(BufLine(f, L), L, last.path)
               /\ settings = NewSettings

\* a line without a key at line 2, below a comment line
C7_Witness ==
    /\ LoadReturned
    /\ last.result.idx = MISSING_KEY_MESSAGE_IDX
    /\ last.result.params[1] = Dec(2)
    /\ Lines(FileAt(last.path))[1].type = "EmptyLine"
    /\ FileAt(last.path).lines[1] # <<>>

---------------------------------------------------------------------------
(* Claims about get and set: C8, C9, C10 *)

HasSection(self, section_name) ==
    \E i \in 1..Len(self.sections) : self.sections[i].name = section_name

\* the entries of the first section with this name that have this key
Entries(self, section_name, key) ==
    LET section == self.sections[
                       CHOOSE i \in 1..Len(self.sections) :
                           /\ self.sections[i].name = section_name
                           /\ \A j \in 1..(i - 1) :
                                  self.sections[j].name # section_name]
    IN  {n \in 1..Len(section.values) : section.values[n].key = key}

HasKey(self, section_name, key) ==
    HasSection(self, section_name) /\ Entries(self, section_name, key) # {}

\* the text stored for the first entry with this key
Stored(self, section_name, key) ==
    LET section == self.sections[
                       CHOOSE i \in 1..Len(self.sections) :
                           /\ self.sections[i].name = section_name
                           /\ \A j \in 1..(i - 1) :
                                  self.sections[j].name # section_name]
    IN  section.values[CHOOSE n \in Entries(self, section_name, key) :
                           \A m \in Entries(self, section_name, key) : n <= m].value

\* what C8 says get returns
C8_Returns(self, section_name, key, default_value) ==
    IF ~HasSection(self, section_name)
    THEN SettingsValue(default_value,
             Err(SECTION_NOT_FOUND_MESSAGE_IDX, <<section_name>>))
    ELSE IF ~HasKey(self, section_name, key)
    THEN SettingsValue(default_value,
             Err(KEY_NOT_FOUND_MESSAGE_IDX, <<section_name, key>>))
    ELSE IF ~Parse(default_value.t, Stored(self, section_name, key)).ok
    THEN SettingsValue(default_value,
             Err(PARSING_ERROR_MESSAGE_IDX,
                 <<section_name, key,
                   Parse(default_value.t, Stored(self, section_name, key)).error>>))
    ELSE SettingsValue(Parse(default_value.t, Stored(self, section_name, key)).value,
                       Ok)

\* C8: get returns the default with a diagnostic that is not empty when the
\* section is not there (SectionNotFound), else when the key is not there
\* (KeyNotFound), else when the stored text does not parse as the type asked
\* for (ParsingError), and in every other case the parsed stored value with an
\* empty diagnostic; get changes neither the model nor the file
C8_Get ==
    [][last'.op = "get" =>
          /\ last'.result =
                 C8_Returns(settings, last'.section, last'.key, last'.default)
          /\ (last'.result.error = <<>>) <=>
                 /\ HasKey(settings, last'.section, last'.key)
                 /\ Parse(last'.default.t,
                          Stored(settings, last'.section, last'.key)).ok
          /\ last'.result.error # <<>> => last'.result.value = last'.default
          /\ settings' = settings /\ fs' = fs]_vars

\* get has returned ParsingError: the entry is there, its text is no u8
C8_Witness ==
    /\ last.op = "get"
    /\ last.result.idx = PARSING_ERROR_MESSAGE_IDX
    /\ last.default.t = "u8"
    /\ last.result.value = last.default
    /\ HasKey(settings, last.section, last.key)

\* the successful sets of the entry (section_name, key) since load, in order
SetsIn(log, section_name, key) ==
    SelectSeq(log, LAMBDA e : e.section = section_name /\ e.key = key)

SetsOf(section_name, key) == SetsIn(sets, section_name, key)

\* C9: set of an entry that is there returns Ok, and a get of that entry, with
\* any default of the type of the value set last, returns that value with an
\* empty diagnostic
C9_SetGet ==
    /\ last.op = "set" /\ HasKey(settings, last.section, last.key) =>
           /\ last.result = Ok
           /\ \A d \in {x \in Defaults : x.t = last.value.t} :
                  get(settings, last.section, last.key, d) =
                      SettingsValue(last.value, Ok)
    /\ last.op = "get" /\ SetsOf(last.section, last.key) # <<>> =>
           LET all == SetsOf(last.section, last.key)
               v == all[Len(all)].value
           IN  last.default.t = v.t => last.result = SettingsValue(v, Ok)

\* get returns the second of two values set for one entry
C9_Witness ==
    /\ last.op = "get"
    /\ Len(SetsOf(last.section, last.key)) = 2
    /\ sets[1].value # sets[2].value
    /\ last.default.t = sets[2].value.t
    /\ last.result = SettingsValue(sets[2].value, Ok)

\* the model but for the texts of the values: the path, the sections in
\* order, and in each the keys and the source lines in order
Shape(self) ==
    [path |-> self.path,
     sections |-> [i \in 1..Len(self.sections) |->
         [name |-> self.sections[i].name,
          entries |-> [n \in 1..Len(self.sections[i].values) |->
              [key |-> self.sections[i].values[n].key,
               line_cnt |-> self.sections[i].values[n].line_cnt]]]]]

\* the value texts of the two models differ at most for the entry (section_name, key)
SameButFor(self, other, section_name, key) ==
    \A i \in 1..Len(self.sections) :
        \A n \in 1..Len(self.sections[i].values) :
            \/ self.sections[i].values[n].value = other.sections[i].values[n].value
            \/ /\ self.sections[i].name = section_name
               /\ self.sections[i].values[n].key = key

\* the model load left
Loaded == load(NewSettings, loaded.path, loaded.file).self

\* C10: set changes the text of the value of the entry (section, key) and
\* nothing else of the model: no section, no key, no source line, no other
\* value, not the path; it returns SectionNotFound when the section is not
\* there and KeyNotFound when the key is not, and then the model is unchanged;
\* after a set, a set of the same entry to the value it was loaded with leaves
\* the model that was loaded
C10_SetFrame ==
    [][last'.op = "set" =>
          /\ Shape(settings') = Shape(settings)
          /\ SameButFor(settings', settings, last'.section, last'.key)
          /\ ~HasSection(settings, last'.section) =>
                 /\ last'.result =
                        Err(SECTION_NOT_FOUND_MESSAGE_IDX, <<last'.section>>)
                 /\ settings' = settings
          /\ HasSection(settings, last'.section)
             /\ ~HasKey(settings, last'.section, last'.key) =>
                 /\ last'.result =
                        Err(KEY_NOT_FOUND_MESSAGE_IDX, <<last'.section, last'.key>>)
                 /\ settings' = settings
          /\ HasKey(settings, last'.section, last'.key) =>
                 /\ last'.result = Ok
                 /\ Stored(settings', last'.section, last'.key) =
                        to_string(last'.value)
          /\ Len(sets') = 2 /\ Len(SetsIn(sets', last'.section, last'.key)) = 2
             /\ to_string(last'.value) = Stored(Loaded, last'.section, last'.key)
             => settings' = Loaded]_vars

\* an entry is set to another text, and then to the text it was loaded with
C10_Witness ==
    /\ last.op = "set" /\ last.result = Ok
    /\ Len(sets) = 2 /\ Len(SetsOf(last.section, last.key)) = 2
    /\ to_string(sets[1].value) # Stored(Loaded, last.section, last.key)
    /\ to_string(sets[2].value) = Stored(Loaded, last.section, last.key)
    /\ Len(AllPairs(settings.sections)) = 2
    /\ settings = Loaded

---------------------------------------------------------------------------
(* Claims about the sections load makes: C11 *)

\* the name a header line gives: the text between its brackets, GLOBAL for "[]"
HeaderName(text) ==
    IF Len(Content(text)) = 2 THEN GLOBAL_SECTION
    ELSE SubSeq(Content(text), 2, Len(Content(text)) - 1)

IsHeader(f, i) ==
    /\ ~BufLineIsErr(f, i)
    /\ starts_with(Content(BufLine(f, i))) /\ ends_with(Content(BufLine(f, i)))

\* the name of the most recent header above line i, GLOBAL when there is none
RECURSIVE HeaderAbove(_, _)
HeaderAbove(f, i) ==
    IF i = 0 THEN GLOBAL_SECTION
    ELSE IF IsHeader(f, i) THEN HeaderName(BufLine(f, i))
    ELSE HeaderAbove(f, i - 1)

\* the indexes of the sections of the model with this name
SectionsNamed(self, section_name) ==
    {s \in 1..Len(self.sections) : self.sections[s].name = section_name}

\* load has succeeded on an instance that was not loaded
LoadSucceeded == last.op = "load" /\ last.result = Ok

\* C11: after load every key/value line is an entry of the one section named
\* by the most recent header above it, of GLOBAL when there is no header above
\* it or that header is "[]", and the model has no other entry; the lines
\* before the first header and those under a later "[GLOBAL]" or "[]" are in
\* one GLOBAL section
C11_Routing ==
    LoadSucceeded =>
        LET f == FileAt(last.path)
        IN  /\ \A i \in 1..Len(f.lines) :
                   IsEntry(f, i) =>
                       /\ Cardinality(SectionsNamed(settings, HeaderAbove(f, i))) = 1
                       /\ \E s \in SectionsNamed(settings, HeaderAbove(f, i)) :
                              \E n \in 1..Len(settings.sections[s].values) :
                                  settings.sections[s].values[n] =
                                      KeyValuePair(Lines(f)[i].key,
                                                   Lines(f)[i].value, i)
            /\ \A s \in 1..Len(settings.sections) :
                   \A n \in 1..Len(settings.sections[s].values) :
                       LET i == settings.sections[s].values[n].line_cnt
                       IN  /\ i \in 1..Len(f.lines) /\ IsEntry(f, i)
                           /\ HeaderAbove(f, i) = settings.sections[s].name

\* an entry at line 1, the headers "[B]" and "[]" in either order, and an
\* entry at line 4: both entries are in GLOBAL
C11_Witness ==
    /\ LoadSucceeded
    /\ Len(FileAt(last.path).lines) = 4
    /\ IsEntry(FileAt(last.path), 1) /\ IsEntry(FileAt(last.path), 4)
    /\ HeaderName(FileAt(last.path).lines[3]) = GLOBAL_SECTION
    /\ IsHeader(FileAt(last.path), 3)
    /\ IsHeader(FileAt(last.path), 2)
    /\ HeaderName(FileAt(last.path).lines[2]) = B
    /\ Len(settings.sections) = 1
    /\ Len(settings.sections[1].values) = 2

---------------------------------------------------------------------------
(* Claims about drop and about save on an instance that is not loaded: C12, C13 *)

\* text starts with head
StartsWith(text, head) ==
    Len(head) <= Len(text) /\ SubSeq(text, 1, Len(head)) = head

\* every entry of the model has its line in the file, and the line reads
\* "key = value", the value being the text stored for the entry
EveryEntryWritten(self, f) ==
    \A n \in 1..Len(AllPairs(self.sections)) :
        LET e == AllPairs(self.sections)[n]
        IN  /\ f.exists /\ e.line_cnt <= Len(f.lines)
            /\ StartsWith(f.lines[e.line_cnt], e.key \o <<" ", "=", " ">>)
            /\ Trim(StripComment(
                   SubSeq(f.lines[e.line_cnt], Len(e.key) + 4,
                          Len(f.lines[e.line_cnt])))) = Trim(e.value)

\* C12 as the spec states it, when no other program has written the file since
\* load: drop of a loaded instance saves the values of that moment, so that
\* every entry line of the file holds the value of its entry, or reports the
\* failure of save and ends without one of its own; drop of an instance that
\* is not loaded writes no file
C12_Original ==
    [][last'.op = "drop" /\ ext = 0 =>
          /\ ~last'.panicked
          /\ last'.result # Ok => last'.eprint # <<>> /\ fs' = fs
          /\ is_initialize(settings) /\ last'.result = Ok =>
                 EveryEntryWritten(settings, fs'[settings.path])
          /\ ~is_initialize(settings) => fs' = fs /\ last'.result = Ok]_vars

\* C13: save on an instance with no path, fresh or after loads that failed,
\* returns Ok whatever the files are, and leaves every file as it is
C13_SaveUnloaded ==
    [][last'.op = "save" /\ ~is_initialize(settings) =>
          /\ last'.result = Ok /\ ~last'.panicked
          /\ fs' = fs
          /\ settings' = settings]_vars

\* save has returned on an instance with no path, the file at P1 being one
\* that does not load
C13_Witness ==
    /\ last.op = "save" /\ last.result = Ok
    /\ ~is_initialize(settings)
    /\ fs[P1].exists
    /\ ~load(NewSettings, P1, fs[P1]).result.ok

---------------------------------------------------------------------------
(* The invariant of the model: C14 *)

\* C14: whatever calls were made, no two entries of a section have one key, no
\* two sections have one name, no section is without an entry, and an
\* instance with an empty path has no section
C14_Invariant ==
    /\ \A s \in 1..Len(settings.sections) :
           /\ settings.sections[s].values # <<>>
           /\ \A n, m \in 1..Len(settings.sections[s].values) :
                  settings.sections[s].values[n].key =
                      settings.sections[s].values[m].key => n = m
           /\ \A t \in 1..Len(settings.sections) :
                  settings.sections[s].name = settings.sections[t].name => s = t
    /\ settings.path = <<>> => settings.sections = <<>>

\* a section of two entries, after a load, a set, a save and a load that failed
C14_Witness ==
    /\ Len(settings.sections) = 1
    /\ Len(settings.sections[1].values) = 2
    /\ sets # <<>> /\ nsaves = 1
    /\ last.op = "load" /\ ~last.result.ok


---------------------------------------------------------------------------
(* Claims about the threads that share an instance: C15 *)

\* the thread is between its lock() and the drop of its guard
Guarded(thread) ==
    threads[thread] \in {"get", "set", "unlock", "get2", "unlock2", "unlock3"}

\* what a get of bool_value returns when no set has completed since load
BoolValueLoaded ==
    get(load(NewSettings, P1, loaded.file).self, GLOBAL_SECTION, BOOL_VALUE,
        Bool(TRUE)).value

\* a step that is a get returns the value of the last set that completed,
\* the value of the file when there is none, and no error
GetReturnsLastSet ==
    last'.op = "get" /\ last' # last =>
        /\ last'.result.error = <<>>
        /\ last'.result.value = IF sets = <<>> THEN BoolValueLoaded
                                ELSE sets[Len(sets)].value

\* the reader has left its loop with wait = false
ReaderStopped ==
    /\ ~threads.wait
    /\ threads.main \notin {"spawn", "while", "lock", "get", "unlock"}

\* C15: in tests::multi_thread_settings, where a writer thread does one
\* set(GLOBAL, bool_value, false) and a reader calls get(GLOBAL, bool_value,
\* true) until it reads false, both through one Mutex: no two threads are
\* ever inside a get or set at once, every get returns the value of the most
\* recent completed set, and under fair scheduling the reader reads false and
\* leaves its loop, after which the writer has ended and the test passes
\* its last assertion.
C15_Threads ==
    /\ [](~(Guarded("main") /\ Guarded("thread1")))
    /\ [](Guarded("main") => threads.mutex = "main")
    /\ [](Guarded("thread1") => threads.mutex = "thread1")
    /\ [][GetReturnsLastSet]_vars
    /\ <>ReaderStopped
    /\ <>(threads.main = "drop" /\ threads.thread1 = "end")

\* the file said true, the writer has set false, and the reader has read it
C15_Witness ==
    /\ threads.main = "unlock"
    /\ last.op = "get" /\ last.thread = "main"
    /\ last.result.value = Bool(FALSE)
    /\ ~threads.wait
    /\ get(load(NewSettings, P1, loaded.file).self, GLOBAL_SECTION, BOOL_VALUE,
           Bool(FALSE)).value = Bool(TRUE)
    /\ sets = <<[section |-> GLOBAL_SECTION, key |-> BOOL_VALUE,
                 value |-> Bool(FALSE)]>>
    /\ threads.thread1 = "end"

---------------------------------------------------------------------------
(* Claims about the lines load reads: C16, C17 *)

\* line L of f is the first line load stops at: the lines above it are read,
\* are well formed and repeat no key
FirstStop(f, L) ==
    /\ L \in 1..Len(f.lines)
    /\ \A i \in 1..L : ~BufLineIsErr(f, i)
    /\ \A i \in 1..(L - 1) : Lines(f)[i].type # "BadFormattedLine"
    /\ \A p \in DuplicatedPairs(f) : p[2] >= L

\* the text has an '=' in what is left of it without comment
HasAssign(text) == Find(Content(text), ASSIGN_TAG) # 0

\* C16: a line that, without its comment and the space around it, begins
\* with '[' and does not end with ']' makes load fail with
\* MissingEndSectionTag, and one that ends with ']' and does not begin with
\* '[' with MissingStartSectionTag, whether or not the line holds an '=';
\* the instance is left not loaded.
C16_SectionTags ==
    LoadReturned =>
        \A L \in 1..Len(FileAt(last.path).lines) :
            LET f == FileAt(last.path)
                text == BufLine(f, L)
            IN  FirstStop(f, L) /\ Content(text) # <<>> =>
                    /\ Content(text)[1] = "[" /\ Content(text)[Len(Content(text))] # "]"
                       => /\ last.result = Err(MISSING_END_SECTION_TAG_MESSAGE_IDX,
                                               <<<<"]">>, Dec(L), last.path>>)
                          /\ settings = NewSettings
                    /\ Content(text)[1] # "[" /\ Content(text)[Len(Content(text))] = "]"
                       => /\ last.result = Err(MISSING_START_SECTION_TAG_MESSAGE_IDX,
                                               <<<<"[">>, Dec(L), last.path>>)
                          /\ settings = NewSettings

\* load has failed with MissingStartSectionTag on a key/value line whose
\* value ends with ']'
C16_Witness ==
    /\ LoadReturned
    /\ last.result.idx = MISSING_START_SECTION_TAG_MESSAGE_IDX
    /\ Len(FileAt(last.path).lines) = 1
    /\ HasAssign(BufLine(FileAt(last.path), 1))
    /\ BeforeAssign(Content(BufLine(FileAt(last.path), 1))) = K
    /\ settings = NewSettings

\* the positions of c in text
Positions(text, c) == {i \in 1..Len(text) : text[i] = c}

Least(S) == CHOOSE i \in S : \A j \in S : i <= j

\* the text before its first '#'
CommentFree(text) ==
    IF Positions(text, "#") = {} THEN text
    ELSE SubSeq(text, 1, Least(Positions(text, "#")) - 1)

\* the key of a key/value line: what stands before the first '=', trimmed
KeyText(text) ==
    Trim(SubSeq(CommentFree(text), 1, Least(Positions(CommentFree(text), "=")) - 1))

\* the value of a key/value line: what stands after the first '=', without
\* any '=', trimmed
ValueText(text) ==
    Trim(SelectSeq(SubSeq(Trim(CommentFree(text)),
                          Least(Positions(Trim(CommentFree(text)), "=")) + 1,
                          Len(Trim(CommentFree(text)))),
                   LAMBDA c : c # "="))

\* text has no '=' and no '#', and no white space at its ends
Clean(text) ==
    /\ Positions(text, "=") = {} /\ Positions(text, "#") = {}
    /\ text # <<>> => ~IsWhite(text[1]) /\ ~IsWhite(text[Len(text)])

\* C17: after load every entry holds the key and the value of its line: the
\* key is the trimmed text before the first '=', the value the text after it
\* without any further '=', trimmed; neither holds an '=' or a '#' nor has
\* white space at its ends, and a line "k =" gives the entry (k, empty).
C17_KeyAndValue ==
    LoadSucceeded =>
        \A s \in 1..Len(settings.sections) :
            \A n \in 1..Len(settings.sections[s].values) :
                LET pair == settings.sections[s].values[n]
                    text == BufLine(FileAt(last.path), pair.line_cnt)
                IN  /\ pair.key = KeyText(text)
                    /\ pair.value = ValueText(text)
                    /\ Clean(pair.key) /\ Clean(pair.value)
                    /\ pair.key # <<>>
                    /\ text = <<"k", " ", "=">> => pair.key = K /\ pair.value = <<>>

\* a line with two '=' has been loaded, and its value is not empty
C17_Witness ==
    /\ LoadSucceeded
    /\ Len(settings.sections) = 1
    /\ Len(settings.sections[1].values) = 1
    /\ Cardinality(Positions(BufLine(FileAt(last.path), 1), "=")) = 2
    /\ settings.sections[1].values[1].value # <<>>

---------------------------------------------------------------------------
(* Claims about the sections a header makes: C18 *)

\* the key/value lines of f routed to the section named section_name
EntriesOf(f, section_name) ==
    {i \in 1..Len(f.lines) : IsEntry(f, i) /\ HeaderAbove(f, i) = section_name}

\* the names the headers of f give, and GLOBAL
HeaderNames(f) ==
    {GLOBAL_SECTION} \cup
    {HeaderName(BufLine(f, i)) : i \in {j \in 1..Len(f.lines) : IsHeader(f, j)}}

SectionNotFound(section_name) ==
    Err(SECTION_NOT_FOUND_MESSAGE_IDX, <<section_name>>)

\* C18: after load the model has a section named n exactly when a key/value
\* line is routed to n, so a header with no such line makes no section; get
\* and set on the name of a header to which no key/value line is routed,
\* GLOBAL included, return SectionNotFound and leave the model as it is; the
\* sections stand in the order of the lines of their first entries.
C18_Sections ==
    LoadSucceeded =>
        LET f == FileAt(last.path)
        IN  /\ \A n \in HeaderNames(f) :
                   HasSection(settings, n) <=> EntriesOf(f, n) # {}
            /\ \A s \in 1..Len(settings.sections) :
                   /\ settings.sections[s].name \in HeaderNames(f)
                   /\ settings.sections[s].values # <<>>
            /\ \A n \in HeaderNames(f) :
                   EntriesOf(f, n) = {} =>
                       /\ \A k \in KeyArgs, d \in Defaults :
                              get(settings, n, k, d) =
                                  SettingsValue(d, SectionNotFound(n))
                       /\ \A k \in KeyArgs, v \in SetValues :
                              /\ set(settings, n, k, v).result = SectionNotFound(n)
                              /\ set(settings, n, k, v).self = settings
            /\ \A s, t \in 1..Len(settings.sections) :
                   s < t => Least(EntriesOf(f, settings.sections[s].name))
                              < Least(EntriesOf(f, settings.sections[t].name))

\* a file with the headers "[B]" and "[]" whose entries all stand under
\* "[B]" has been loaded: B is the one section, GLOBAL has none
C18_Witness ==
    /\ LoadSucceeded
    /\ HeaderNames(FileAt(last.path)) = {GLOBAL_SECTION, B}
    /\ \E i \in 1..Len(FileAt(last.path).lines) :
           /\ IsHeader(FileAt(last.path), i)
           /\ HeaderName(BufLine(FileAt(last.path), i)) = GLOBAL_SECTION
    /\ EntriesOf(FileAt(last.path), GLOBAL_SECTION) = {}
    /\ EntriesOf(FileAt(last.path), B) # {}
    /\ Len(settings.sections) = 1
    /\ ~HasSection(settings, GLOBAL_SECTION)

---------------------------------------------------------------------------
(* Claims about the text of the diagnostics: C19 *)

\* the template with its i-th placeholder replaced by the i-th parameter from
\* parameter i on: a placeholder with no parameter stays, a parameter with no
\* placeholder is not used
RECURSIVE Filled(_, _, _)
Filled(template, params, i) ==
    IF FindPlaceholder(template) = 0 \/ i > Len(params) THEN template
    ELSE SubSeq(template, 1, FindPlaceholder(template) - 1) \o params[i]
         \o Filled(SubSeq(template, FindPlaceholder(template) + 2, Len(template)),
                   params, i + 1)

\* C19 as the spec states it, for the lists of at least one parameter:
\* format_message returns the template with its i-th placeholder replaced by
\* the i-th parameter, whatever the parameters hold; placeholders without a
\* parameter stay and parameters without a placeholder are not used.
C19_Original ==
    last.op = "format" /\ last.params # <<>> =>
        /\ ~last.panicked
        /\ last.message = Filled(SETTINGS_MESSAGES[last.message_idx + 1],
                                 last.params, 1)

---------------------------------------------------------------------------
(* Claims about what a saved file loads to: C20 *)

\* a fresh instance after load of the path of the loaded one
Reloaded == load(NewSettings, settings.path, FileAt(settings.path))

\* C20 as the spec states it: after load, a set of a String that succeeds
\* and a save that succeeds, a fresh instance loads the path and its get of
\* the entry returns the value set, with no error.
C20_Original ==
    /\ last.op = "save" /\ last.result = Ok /\ ~last.panicked
    /\ is_initialize(settings)
    /\ sets # <<>>
    => /\ Reloaded.result = Ok
       /\ get(Reloaded.self, sets[Len(sets)].section, sets[Len(sets)].key,
              String(<<"?">>)) = SettingsValue(sets[Len(sets)].value, Ok)

---------------------------------------------------------------------------
(* Claims about a save after a save: C21 *)

\* C21 as the spec states it: a save that returns Ok right after a save that
\* returned Ok, no set in between, leaves the file as the first save left it.
C21_Original ==
    [][/\ last.op = "save" /\ last.result = Ok /\ ~last.panicked
       /\ nsaves' = nsaves + 1
       /\ last'.op = "save" /\ last'.result = Ok /\ ~last'.panicked
       => fs' = fs]_vars

---------------------------------------------------------------------------
(* Claims about what load and save leave for the next load: C22 *)

\* C22 as the spec states it: after a load that succeeds and a save with no
\* set in between, a fresh instance loads the path and holds what the first
\* load left: the same sections in the same order, with the same keys, values
\* and lines.
C22_Original ==
    SavedAfter(0) =>
        /\ Reloaded.result = Ok
        /\ Reloaded.self.path = settings.path
        /\ Reloaded.self.sections = settings.sections

---------------------------------------------------------------------------
(* Claims about the lines of the entries: C23 *)

\* C23: after a load that succeeds, of a file of N lines, the line of every
\* entry is one of 1..N and no two entries, of one section or of two, have
\* the same line; a save of the file as it is then finds the line of every
\* entry, and returns Ok.
C23_SourceLines ==
    LoadSucceeded =>
        LET pairs == AllPairs(settings.sections)
            f == FileAt(last.path)
        IN  /\ \A i \in 1..Len(pairs) : pairs[i].line_cnt \in 1..Len(f.lines)
            /\ \A i, j \in 1..Len(pairs) :
                   i # j => pairs[i].line_cnt # pairs[j].line_cnt
            /\ ~save(settings, f).panicked
            /\ save(settings, f).result = Ok

\* a file of four lines has been loaded: two sections and three entries, the
\* last of them on the last line
C23_Witness ==
    /\ LoadSucceeded
    /\ Len(FileAt(last.path).lines) = 4
    /\ Len(settings.sections) = 2
    /\ Len(AllPairs(settings.sections)) = 3
    /\ AllPairs(settings.sections)[3].line_cnt = 4

---------------------------------------------------------------------------
(* Claims about what save returns and leaves: C24, C25 *)

\* C24 as the spec states it: whatever the file at the path holds when save
\* is called, as loaded or written since by another program, save returns,
\* with Ok or with an error: it does not panic.
C24_Original ==
    last.op = "save" => ~last.panicked

============================================================================
